---- MODULE Spec2Model ----
(***************************************************************************)
(* Trigger engine of swat: the Scheduler (time trigger), the signaler      *)
(* (signal trigger), the targeter (output target) and BaseAction, which    *)
(* composes them.  Goroutines are processes with a program counter, a Go   *)
(* channel is a record holding its buffer, time is a discrete clock.       *)
(***************************************************************************)
EXTENDS Integers, Sequences, FiniteSets, TLC

\* ------------------------------------------------------------------ bounds
MaxTime == 3      \* the clock runs from 1 to MaxTime
MaxDur == 1       \* durations given to After, Every and For are 0..MaxDur
MaxEnds == 2      \* number of End()/end() calls the callers make
MaxFiles == 1     \* number of ToFile calls made while configuring an action
MaxSignals == 1   \* number of notifications the process receives
MaxFns == 5       \* number of functions given to one call of parallel
MaxActions == 3   \* number of actions given to Boot
MaxSwatEnds == 1  \* number of calls of Swat.End the host makes after Boot

\* the zero value of time.Time (IsZero) and of time.Duration
ZeroTime == 0
\* time.Unix(1<<62, 0), scaled to the 32-bit integers of the checker: an
\* instant later than every instant the clock or a cutoff can take
Forever == 1073741824

Durations == 0..MaxDur
Instants == 0..MaxTime
Triggers == {"sched", "sig"}
\* the setters After, Every, At, For, Until and the field each assigns
Setters == {"After", "Every", "At", "For", "Until"}
FieldOf == [After |-> "after", Every |-> "every", At |-> "at",
            For |-> "length", Until |-> "until"]
Calls == 1..MaxEnds

VARIABLES
    ctor,      \* how the triggers were built: "newScheduler", "NewAction" or,
               \* with the recording callback of the tests, "newTestScheduler"
    s,         \* the Scheduler's fields at, after, every, length, until
    signals,   \* signaler.signals is non-empty
    called,    \* the setters of the Scheduler that were called
    cb,        \* how long one run of the callback of the test scheduler takes
    times,     \* the instants the callback of the test scheduler recorded
    startedAt, \* start := time.Now() of a scheduler test, ZeroTime before it
    running,   \* runs of the callback by the time worker that are in progress
    hpc,       \* where Swat.Boot is, "none" when no Swat drives the action
    hwg,       \* counter of the WaitGroup of Swat.End
    owned,     \* s.actions of the Swat: the indexes of the actions appended
    failedAt,  \* index of the action whose Start() failed in Boot, 0 when none
    started2,  \* Boot called Start() on the second action
    logged,    \* errors of the callback the wrapper of BaseAction.Start logged
    pn,        \* parallel(fns...): len(fns)
    pk,        \* parallel: number of iterations of its loop that were run
    pfn,       \* parallel: "none", "run" or "ret" for the goroutine of each fn
    pwg,       \* parallel: counter of its WaitGroup
    ppc,       \* parallel: "idle" when not called, "loop", "wait" or "ret"
    aok,       \* for each action given to Boot, whether its Start() succeeds
    astarted,  \* number of Start() calls made on each action
    aended,    \* number of End() calls made on each action
    bi,        \* Boot: index of the action the loop is at
    sacts,     \* s.actions of the Swat, a sequence of action indexes
    spc,       \* the host: "idle", "boot", "rollback", "bootErr", "bootNil",
               \* "hostEnd" or "ended"
    sends,     \* number of calls of Swat.End the host made after Boot
    sepc,      \* Swat.End: "idle", "loop" or "wait"
    swg,       \* counter of the WaitGroup of the current call of Swat.End
    g,         \* goroutine of Swat.End per action: "none", "go", "inEnd"
               \* or "done"
    verr,      \* what the last call of validate() returned, "none" before it
    closer,    \* the closer channel of each trigger
    now,       \* time.Now()
    pc,        \* position of the goroutine running start(), per trigger
    timer,     \* instant at which the pending time.After channel fires
    until,     \* the local variable until of Scheduler.start
    calls,     \* number of invocations of fn made by each trigger
    ch,        \* number of notifications buffered in ch of signaler.start
    notified,  \* number of notifications the process has received
    epc,       \* position of each call of end(), per trigger
    ends,      \* number of calls of Scheduler.end() or BaseAction.End() made
    lastErr,   \* BaseAction.lastErr is non-nil
    opened,    \* number of files os.Create has returned to ToFile
    tcloser,   \* targeter.closer: 0 is nil, k is the k-th file created
    closed,    \* number of Close calls made on each file
    apc,       \* BaseAction.Start: "new", "started" or the error returned
    bpc,       \* position of each call of BaseAction.End (in parallel)
    wg,        \* the WaitGroup counter of each call of parallel
    tpc,       \* position of the goroutine running targeter.end, per call
    eLive,     \* the worker was launched when the current end() was called
    earlyEnd,  \* some end() was called on a launched worker before any firing
    endedLive  \* some end() called on a launched worker has returned

cfgVars == <<ctor, s, signals, called, cb>>
auxVars == <<verr>>
obsVars == <<times, startedAt>>
cbVars == <<running, logged>>
hostVars == <<hpc, hwg, owned, failedAt, started2>>
parVars == <<pn, pk, pfn, pwg, ppc>>
swatVars == <<aok, astarted, aended, bi, sacts, spc, sends, sepc, swg, g>>
sigVars == <<ch, notified>>
targVars == <<lastErr, opened, tcloser, closed>>
baseVars == <<apc, bpc, wg, tpc>>
hist == <<eLive, earlyEnd, endedLive>>

vars == <<cfgVars, auxVars, obsVars, cbVars, hostVars, parVars, swatVars,
          closer, now, pc, timer,
          until, calls, sigVars, epc, ends,
          targVars, baseVars, hist>>

\* ---------------------------------------------------------------- channels
\* make(chan bool, n)
MakeChan(n) == [isNil |-> FALSE, cap |-> n, buf |-> <<>>]
\* the zero value of a channel type: every send and receive blocks forever
NilChan == [isNil |-> TRUE, cap |-> 0, buf |-> <<>>]

CanSend(c) == ~c.isNil /\ Len(c.buf) < c.cap
CanRecv(c) == ~c.isNil /\ Len(c.buf) > 0
Send(c, v) == [c EXCEPT !.buf = Append(@, v)]
Recv(c) == [c EXCEPT !.buf = Tail(@)]

\* --------------------------------------------------------------- Scheduler
\* &Scheduler{fn: fn, closer: make(chan bool, 1)}; no signaler is built
newScheduler == [sched |-> MakeChan(1), sig |-> NilChan]

\* new(scheduler), new(signaler): every field is its zero value
NewAction == [sched |-> NilChan, sig |-> NilChan]

\* validate() without its third check
validate_noEveryCheck(cfg) ==
    IF cfg.at # ZeroTime /\ cfg.after > 0 THEN "AtAndAfter"
    ELSE IF cfg.until # ZeroTime /\ cfg.length > 0 THEN "UntilAndFor"
    ELSE "nil"

validate(cfg) ==
    IF cfg.at # ZeroTime /\ cfg.after > 0 THEN "AtAndAfter"
    ELSE IF cfg.until # ZeroTime /\ cfg.length > 0 THEN "UntilAndFor"
    ELSE IF (cfg.length > 0 \/ cfg.until # ZeroTime) /\ cfg.every = 0
         THEN "EveryRequired"
    ELSE "nil"

\* resolveSleep() taking the instant `at` for a duration
resolveSleep_atAsDuration(cfg, t) ==
    IF cfg.after > 0 THEN cfg.after
    ELSE IF cfg.at # ZeroTime THEN cfg.at
    ELSE 0

resolveSleep(cfg, t) ==
    IF cfg.after > 0 THEN cfg.after
    ELSE IF cfg.at # ZeroTime THEN cfg.at - t
    ELSE 0

isActivated(cfg) == cfg.after > 0 \/ cfg.at # ZeroTime \/ cfg.every > 0

\* getUntil() without its `until` branch
getUntil_ignoresUntil(cfg, t) ==
    IF cfg.length > 0 THEN t + cfg.length
    ELSE Forever

getUntil(cfg, t) ==
    IF cfg.length > 0 THEN t + cfg.length
    ELSE IF cfg.until # ZeroTime THEN cfg.until
    ELSE Forever

\* start := time.Now(); go s.start() in the tests of the Scheduler
GoStart ==
    /\ ctor \in {"newScheduler", "newTestScheduler"}
    /\ pc.sched = "idle"
    /\ pc' = [pc EXCEPT !.sched = "start"]
    /\ startedAt' = IF ctor = "newTestScheduler" THEN now ELSE startedAt
    /\ times' = times
    /\ UNCHANGED <<cfgVars, swatVars, parVars, hostVars, cbVars, auxVars,
                   closer, now, timer, until, calls, sigVars, epc, ends,
                   targVars, baseVars, hist>>

\* Scheduler.start up to the first select: the inert check and
\* time.After(s.resolveSleep())
start_begin ==
    /\ pc.sched = "start"
    /\ IF ~isActivated(s)
       THEN /\ pc' = [pc EXCEPT !.sched = "defer"]
            /\ timer' = timer
       ELSE /\ pc' = [pc EXCEPT !.sched = "wait1"]
            /\ timer' = now + resolveSleep(s, now)
    /\ UNCHANGED <<cfgVars, swatVars, parVars, hostVars, cbVars, auxVars,
                   obsVars, closer, now, until, calls, sigVars, epc, ends,
                   targVars, baseVars, hist>>

\* first select, case <-s.closer: return
start_wait1_closer ==
    /\ pc.sched = "wait1"
    /\ CanRecv(closer.sched)
    /\ closer' = [closer EXCEPT !.sched = Recv(@)]
    /\ pc' = [pc EXCEPT !.sched = "defer"]
    /\ UNCHANGED <<cfgVars, swatVars, parVars, hostVars, cbVars, auxVars,
                   obsVars, now, timer, until, calls, sigVars, epc, ends,
                   targVars, baseVars, hist>>

\* the first select of start() with the cutoff taken from the start of the
\* test instead of the end of the wait
start_wait1_timer_untilFromStart ==
    /\ pc.sched = "wait1"
    /\ now >= timer
    /\ until' = getUntil(s, startedAt)
    /\ pc' = [pc EXCEPT !.sched = "loop"]
    /\ UNCHANGED <<cfgVars, swatVars, parVars, hostVars, cbVars, auxVars,
                   obsVars, closer, now, timer, calls, sigVars, epc, ends,
                   targVars, baseVars, hist>>

\* first select, case <-time.After(...); then until := s.getUntil()
start_wait1_timer ==
    /\ pc.sched = "wait1"
    /\ now >= timer
    /\ until' = getUntil(s, now)
    /\ pc' = [pc EXCEPT !.sched = "loop"]
    /\ UNCHANGED <<cfgVars, swatVars, parVars, hostVars, cbVars, auxVars,
                   obsVars, closer, now, timer, calls, sigVars, epc, ends,
                   targVars, baseVars, hist>>

\* the loop of start() written with !time.Now().After(until)
start_loop_inclusive ==
    /\ pc.sched = "loop"
    /\ IF now <= until
       THEN /\ pc' = [pc EXCEPT !.sched = "fn"]
            /\ calls' = [calls EXCEPT !.sched = @ + 1]
            /\ running' = running + 1
            /\ times' = IF ctor = "newTestScheduler"
                        THEN Append(times, now) ELSE times
       ELSE /\ pc' = [pc EXCEPT !.sched = "defer"]
            /\ calls' = calls
            /\ running' = running
            /\ times' = times
    /\ startedAt' = startedAt
    /\ logged' = logged
    /\ UNCHANGED <<cfgVars, swatVars, parVars, hostVars, auxVars, closer, now,
                   timer, until, sigVars, epc, ends, targVars, baseVars,
                   hist>>

\* for time.Now().Before(until) { s.fn() ...; the callback of the test
\* scheduler appends time.Now() to times
start_loop ==
    /\ pc.sched = "loop"
    /\ IF now < until
       THEN /\ pc' = [pc EXCEPT !.sched = "fn"]
            /\ calls' = [calls EXCEPT !.sched = @ + 1]
            /\ running' = running + 1
            /\ times' = IF ctor = "newTestScheduler"
                        THEN Append(times, now) ELSE times
       ELSE /\ pc' = [pc EXCEPT !.sched = "defer"]
            /\ calls' = calls
            /\ running' = running
            /\ times' = times
    /\ startedAt' = startedAt
    /\ logged' = logged
    /\ UNCHANGED <<cfgVars, swatVars, parVars, hostVars, auxVars, closer, now,
                   timer, until, sigVars, epc, ends, targVars, baseVars,
                   hist>>

\* s.fn() returning, start() leaving its loop when the callback failed
start_fn_return_exitOnError(err) ==
    /\ pc.sched = "fn"
    /\ err => ctor = "NewAction"
    /\ ctor = "newTestScheduler" => now >= times[Len(times)] + cb
    /\ IF s.every = 0 \/ err
       THEN /\ pc' = [pc EXCEPT !.sched = "defer"]
            /\ timer' = timer
       ELSE /\ pc' = [pc EXCEPT !.sched = "wait2"]
            /\ timer' = now + s.every
    /\ running' = running - 1
    /\ logged' = logged + (IF err THEN 1 ELSE 0)
    /\ UNCHANGED <<cfgVars, swatVars, parVars, hostVars, auxVars, obsVars,
                   closer, now, until, calls, sigVars, epc, ends, targVars,
                   baseVars, hist>>

\* s.fn() returning while the run of the callback goes on
start_fn_return_stillRunning(err) ==
    /\ pc.sched = "fn"
    /\ err => ctor = "NewAction"
    /\ ctor = "newTestScheduler" => now >= times[Len(times)] + cb
    /\ IF s.every = 0
       THEN /\ pc' = [pc EXCEPT !.sched = "defer"]
            /\ timer' = timer
       ELSE /\ pc' = [pc EXCEPT !.sched = "wait2"]
            /\ timer' = now + s.every
    /\ running' = running
    /\ logged' = logged + (IF err THEN 1 ELSE 0)
    /\ UNCHANGED <<cfgVars, swatVars, parVars, hostVars, auxVars, obsVars,
                   closer, now, until, calls, sigVars, epc, ends, targVars,
                   baseVars, hist>>

\* s.fn() returns, the callback of a BaseAction with an error (err) that the
\* wrapper logs or with none; if s.every == 0 { return }; time.After(s.every)
start_fn_return(err) ==
    /\ pc.sched = "fn"
    /\ err => ctor = "NewAction"
    /\ ctor = "newTestScheduler" => now >= times[Len(times)] + cb
    /\ IF s.every = 0
       THEN /\ pc' = [pc EXCEPT !.sched = "defer"]
            /\ timer' = timer
       ELSE /\ pc' = [pc EXCEPT !.sched = "wait2"]
            /\ timer' = now + s.every
    /\ running' = running - 1
    /\ logged' = logged + (IF err THEN 1 ELSE 0)
    /\ UNCHANGED <<cfgVars, swatVars, parVars, hostVars, auxVars, obsVars,
                   closer, now, until, calls, sigVars, epc, ends, targVars,
                   baseVars, hist>>

\* second select, case <-s.closer: return
start_wait2_closer ==
    /\ pc.sched = "wait2"
    /\ CanRecv(closer.sched)
    /\ closer' = [closer EXCEPT !.sched = Recv(@)]
    /\ pc' = [pc EXCEPT !.sched = "defer"]
    /\ UNCHANGED <<cfgVars, swatVars, parVars, hostVars, cbVars, auxVars,
                   obsVars, now, timer, until, calls, sigVars, epc, ends,
                   targVars, baseVars, hist>>

\* second select, case <-time.After(s.every)
start_wait2_timer ==
    /\ pc.sched = "wait2"
    /\ now >= timer
    /\ pc' = [pc EXCEPT !.sched = "loop"]
    /\ UNCHANGED <<cfgVars, swatVars, parVars, hostVars, cbVars, auxVars,
                   obsVars, closer, now, timer, until, calls, sigVars, epc,
                   ends, targVars, baseVars, hist>>

\* start() returning without its deferred send: no completion is reported
start_defer_silent(tr) ==
    /\ pc[tr] = "defer"
    /\ pc' = [pc EXCEPT ![tr] = "done"]
    /\ UNCHANGED <<cfgVars, swatVars, parVars, hostVars, cbVars, auxVars,
                   obsVars, closer, now, timer, until, calls, sigVars, epc,
                   ends, targVars, baseVars, hist>>

\* defer func() { s.closer <- true }(), of Scheduler.start and signaler.start
start_defer(tr) ==
    /\ pc[tr] = "defer"
    /\ CanSend(closer[tr])
    /\ closer' = [closer EXCEPT ![tr] = Send(@, TRUE)]
    /\ pc' = [pc EXCEPT ![tr] = "done"]
    /\ UNCHANGED <<cfgVars, swatVars, parVars, hostVars, cbVars, auxVars,
                   obsVars, now, timer, until, calls, sigVars, epc, ends,
                   targVars, baseVars, hist>>

\* the test calls s.end(): one call at a time, MaxEnds calls at most
CallEnd ==
    /\ ctor = "newScheduler"
    /\ ends < MaxEnds
    /\ \A i \in Calls : epc.sched[i] \in {"idle", "ret"}
    /\ ends' = ends + 1
    /\ epc' = [epc EXCEPT !.sched[ends + 1] = "select"]
    /\ eLive' = (pc.sched # "idle")
    /\ earlyEnd' = (earlyEnd \/ (pc.sched # "idle" /\ calls.sched = 0))
    /\ UNCHANGED <<cfgVars, swatVars, parVars, hostVars, cbVars, auxVars,
                   obsVars, closer, now, pc, timer, until, calls, sigVars,
                   targVars, baseVars, endedLive>>

\* end() whose receive case falls through to the <-s.closer of the send case
end_recv_fallthrough(tr, i) ==
    /\ epc[tr][i] = "select"
    /\ CanRecv(closer[tr])
    /\ closer' = [closer EXCEPT ![tr] = Recv(@)]
    /\ epc' = [epc EXCEPT ![tr][i] = "recv"]
    /\ UNCHANGED <<cfgVars, swatVars, parVars, hostVars, cbVars, auxVars,
                   obsVars, now, pc, timer, until, calls, sigVars, ends,
                   targVars, baseVars, hist>>

\* end(): select, case <-s.closer:
end_recv(tr, i) ==
    /\ epc[tr][i] = "select"
    /\ CanRecv(closer[tr])
    /\ closer' = [closer EXCEPT ![tr] = Recv(@)]
    /\ epc' = [epc EXCEPT ![tr][i] = "ret"]
    /\ endedLive' = (endedLive \/ (tr = "sched" /\ eLive))
    /\ UNCHANGED <<cfgVars, swatVars, parVars, hostVars, cbVars, auxVars,
                   obsVars, now, pc, timer, until, calls, sigVars, ends,
                   targVars, baseVars, eLive, earlyEnd>>

\* end(): select, case s.closer <- true:
end_send(tr, i) ==
    /\ epc[tr][i] = "select"
    /\ CanSend(closer[tr])
    /\ closer' = [closer EXCEPT ![tr] = Send(@, TRUE)]
    /\ epc' = [epc EXCEPT ![tr][i] = "recv"]
    /\ UNCHANGED <<cfgVars, swatVars, parVars, hostVars, cbVars, auxVars,
                   obsVars, now, pc, timer, until, calls, sigVars, ends,
                   targVars, baseVars, hist>>

\* end(): the <-s.closer that follows the send
end_send_recv(tr, i) ==
    /\ epc[tr][i] = "recv"
    /\ CanRecv(closer[tr])
    /\ closer' = [closer EXCEPT ![tr] = Recv(@)]
    /\ epc' = [epc EXCEPT ![tr][i] = "ret"]
    /\ endedLive' = (endedLive \/ (tr = "sched" /\ eLive))
    /\ UNCHANGED <<cfgVars, swatVars, parVars, hostVars, cbVars, auxVars,
                   obsVars, now, pc, timer, until, calls, sigVars, ends,
                   targVars, baseVars, eLive, earlyEnd>>

\* the clock advances
Tick ==
    /\ now < MaxTime
    /\ now' = now + 1
    /\ UNCHANGED <<cfgVars, swatVars, parVars, hostVars, cbVars, auxVars,
                   obsVars, closer, pc, timer, until, calls, sigVars, epc,
                   ends, targVars, baseVars, hist>>

\* ---------------------------------------------------------------- signaler
\* signaler.start up to the loop: the inert check, then signal.Notify
sig_start_begin ==
    /\ pc.sig = "start"
    /\ pc' = [pc EXCEPT !.sig = IF signals THEN "wait" ELSE "defer"]
    /\ UNCHANGED <<cfgVars, swatVars, parVars, hostVars, cbVars, auxVars,
                   obsVars, closer, now, timer, until, calls, sigVars, epc,
                   ends, targVars, baseVars, hist>>

\* the process receives one of the signals: package signal sends on ch
\* without blocking, and drops the notification when ch is full
Notify ==
    /\ pc.sig \in {"wait", "fn"}
    /\ notified < MaxSignals
    /\ notified' = notified + 1
    /\ ch' = IF ch < 1 THEN ch + 1 ELSE ch
    /\ UNCHANGED <<cfgVars, swatVars, parVars, hostVars, cbVars, auxVars,
                   obsVars, closer, now, pc, timer, until, calls, epc, ends,
                   targVars, baseVars, hist>>

\* select of signaler.start: case <-s.closer: return, or case <-ch: s.fn()
sig_start_select ==
    /\ pc.sig = "wait"
    /\ \/ /\ CanRecv(closer.sig)
          /\ closer' = [closer EXCEPT !.sig = Recv(@)]
          /\ pc' = [pc EXCEPT !.sig = "defer"]
          /\ UNCHANGED <<ch, calls>>
       \/ /\ ch > 0
          /\ ch' = ch - 1
          /\ calls' = [calls EXCEPT !.sig = @ + 1]
          /\ pc' = [pc EXCEPT !.sig = "fn"]
          /\ closer' = closer
    /\ UNCHANGED <<cfgVars, swatVars, parVars, hostVars, cbVars, auxVars,
                   obsVars, now, timer, until, notified, epc, ends, targVars,
                   baseVars, hist>>

\* s.fn() returns in signaler.start: back to the select
\* the callback returns to the loop of signaler.start, with an error (err)
\* that the wrapper of BaseAction.Start logs or with none
sig_fn_return(err) ==
    /\ pc.sig = "fn"
    /\ pc' = [pc EXCEPT !.sig = "wait"]
    /\ running' = running
    /\ logged' = logged + (IF err THEN 1 ELSE 0)
    /\ UNCHANGED <<cfgVars, swatVars, parVars, hostVars, auxVars, obsVars,
                   closer, now, timer, until, calls, sigVars, epc, ends,
                   targVars, baseVars, hist>>

\* ---------------------------------------------------------------- targeter
\* BaseAction.ToFile, before Start: os.Create succeeds or fails
ToFile(ok) ==
    /\ ctor = "NewAction"
    /\ apc = "new"
    /\ ends = 0
    /\ opened < MaxFiles
    /\ IF lastErr
       THEN UNCHANGED <<lastErr, opened, tcloser>>
       ELSE IF ok
            THEN /\ opened' = opened + 1
                 /\ tcloser' = opened + 1
                 /\ lastErr' = FALSE
            ELSE /\ lastErr' = TRUE
                 /\ UNCHANGED <<opened, tcloser>>
    /\ UNCHANGED <<cfgVars, swatVars, parVars, hostVars, cbVars, auxVars,
                   obsVars, closer, now, pc, timer, until, calls, sigVars,
                   epc, ends, closed, baseVars, hist>>

\* targeter.end, run as a goroutine of parallel
targeter_end(i) ==
    /\ tpc[i] = "run"
    /\ tpc' = [tpc EXCEPT ![i] = "ret"]
    /\ closed' = IF tcloser # 0
                 THEN [closed EXCEPT ![tcloser] = @ + 1]
                 ELSE closed
    /\ UNCHANGED <<cfgVars, swatVars, parVars, hostVars, cbVars, auxVars,
                   obsVars, closer, now, pc, timer, until, calls, sigVars,
                   epc, ends, lastErr, opened, tcloser, apc, bpc, wg, hist>>

\* -------------------------------------------------------------- BaseAction
\* BaseAction.Start launching the two workers before it looks at the errors
Start_launchFirst ==
    /\ ctor = "NewAction"
    /\ apc = "new"
    /\ apc' = IF lastErr THEN "lastErr"
              ELSE IF validate(s) # "nil" THEN validate(s) ELSE "started"
    /\ pc' = [sched |-> "start", sig |-> "start"]
    /\ hpc \in {"none", "boot1"}
    /\ hpc' = IF hpc = "none" THEN "none"
              ELSE IF apc' = "started" THEN "boot2" ELSE "end"
    /\ owned' = IF hpc = "boot1" /\ apc' = "started" THEN {1} ELSE owned
    /\ failedAt' = IF hpc = "boot1" /\ apc' # "started" THEN 1 ELSE failedAt
    /\ UNCHANGED <<hwg, started2>>
    /\ UNCHANGED <<cfgVars, swatVars, parVars, cbVars, auxVars, obsVars,
                   closer, now, timer, until, calls, sigVars, epc, ends,
                   targVars, bpc, wg, tpc, hist>>

\* BaseAction.Start, called by the program itself or, when a Swat drives the
\* action, by the first iteration of Swat.Boot, which appends the action to
\* s.actions after a nil result and calls s.End() after an error
Start ==
    /\ ctor = "NewAction"
    /\ apc = "new"
    /\ IF lastErr
       THEN /\ apc' = "lastErr"
            /\ pc' = pc
       ELSE IF validate(s) # "nil"
            THEN /\ apc' = validate(s)
                 /\ pc' = pc
            ELSE /\ apc' = "started"
                 /\ pc' = [sched |-> "start", sig |-> "start"]
    /\ hpc \in {"none", "boot1"}
    /\ hpc' = IF hpc = "none" THEN "none"
              ELSE IF apc' = "started" THEN "boot2" ELSE "end"
    /\ owned' = IF hpc = "boot1" /\ apc' = "started" THEN {1} ELSE owned
    /\ failedAt' = IF hpc = "boot1" /\ apc' # "started" THEN 1 ELSE failedAt
    /\ UNCHANGED <<hwg, started2>>
    /\ UNCHANGED <<cfgVars, swatVars, parVars, cbVars, auxVars, obsVars,
                   closer, now, timer, until, calls, sigVars, epc, ends,
                   targVars, bpc, wg, tpc, hist>>

\* parallel: wg.Wait() returns once the counter is zero
parallel_wait(i) ==
    /\ bpc[i] = "wait"
    /\ wg[i] = 0
    /\ bpc' = [bpc EXCEPT ![i] = "ret"]
    /\ UNCHANGED <<epc, ends, wg, tpc>>

\* BaseAction.End, the i-th call: parallel(signaler.end, scheduler.end,
\* targeter.end) does wg.Add(1) and go fn() for each of the three, then
\* wg.Wait().  None of the three goroutines calls wg.Done, so the counter
\* stays at 3 and the second step is never enabled.
End(i) ==
    /\ ctor = "NewAction"
    /\ \/ /\ bpc[i] = "idle"
          /\ hpc = "none" \/ (hpc = "wait" /\ 1 \in owned /\ ends = 0)
          /\ hwg' = hwg
          /\ i = ends + 1
          /\ ends' = ends + 1
          /\ wg' = [wg EXCEPT ![i] = @ + 3]
          /\ epc' = [tr \in Triggers |-> [epc[tr] EXCEPT ![i] = "select"]]
          /\ tpc' = [tpc EXCEPT ![i] = "run"]
          /\ bpc' = [bpc EXCEPT ![i] = "wait"]
       \/ /\ parallel_wait(i)
          /\ hwg' = IF hpc = "none" THEN hwg ELSE hwg - 1
    /\ UNCHANGED <<hpc, owned, failedAt, started2>>
    /\ UNCHANGED <<cfgVars, swatVars, parVars, cbVars, auxVars, obsVars,
                   closer, now, pc, timer, until, calls, sigVars, targVars,
                   apc, hist>>

\* -------------------------------------------------------------------- Swat
\* Swat.Boot over two actions: the BaseAction above, then a second action of
\* which only the result of Start() matters. Boot calls Start() on the first
\* in the action Start.

\* Boot: the second iteration, the Start() of the second action succeeds
\* (ok) or fails
Boot_Start2(ok) ==
    /\ hpc = "boot2"
    /\ started2' = TRUE
    /\ IF ok
       THEN /\ owned' = owned \cup {2}
            /\ hpc' = "returnedNil"
            /\ failedAt' = failedAt
       ELSE /\ owned' = owned
            /\ hpc' = "end"
            /\ failedAt' = 2
    /\ hwg' = hwg
    /\ UNCHANGED <<cfgVars, swatVars, parVars, auxVars, obsVars, cbVars,
                   closer, now, pc, timer, until, calls, sigVars, epc, ends,
                   targVars, baseVars, hist>>

\* Swat.End called by Boot: wg.Add(1) and a goroutine for every action of
\* s.actions
SwatEnd_spawn ==
    /\ hpc = "end"
    /\ hwg' = hwg + Cardinality(owned)
    /\ hpc' = "wait"
    /\ UNCHANGED <<owned, failedAt, started2>>
    /\ UNCHANGED <<cfgVars, swatVars, parVars, auxVars, obsVars, cbVars,
                   closer, now, pc, timer, until, calls, sigVars, epc, ends,
                   targVars, baseVars, hist>>

\* wg.Wait() of Swat.End returns, then Boot returns the error
Boot_return ==
    /\ hpc = "wait"
    /\ hwg = 0
    /\ hpc' = "returnedErr"
    /\ UNCHANGED <<hwg, owned, failedAt, started2>>
    /\ UNCHANGED <<cfgVars, swatVars, parVars, auxVars, obsVars, cbVars,
                   closer, now, pc, timer, until, calls, sigVars, epc, ends,
                   targVars, baseVars, hist>>

\* ------------------------------------------------------------ specification
Configs == [at : Instants, after : Durations, every : Durations,
            length : Durations, until : Instants]

\* the setters whose field holds a value other than the zero value
NonZero(cfg) ==
    {f \in Setters : cfg[FieldOf[f]] # 0}

Init ==
    /\ ctor \in {"newScheduler", "NewAction"}
    /\ s \in Configs
    /\ signals \in (IF ctor = "NewAction" THEN BOOLEAN ELSE {FALSE})
    /\ called = NonZero(s)
    /\ cb = 0
    /\ times = <<>>
    /\ startedAt = ZeroTime
    /\ running = 0
    /\ logged = 0
    /\ verr = "none"
    /\ closer = (IF ctor = "NewAction" THEN NewAction ELSE newScheduler)
    /\ now = 1
    /\ pc = [sched |-> "idle", sig |-> "idle"]
    /\ timer = 0
    /\ until = ZeroTime
    /\ calls = [sched |-> 0, sig |-> 0]
    /\ ch = 0
    /\ notified = 0
    /\ epc = [tr \in Triggers |-> [i \in Calls |-> "idle"]]
    /\ ends = 0
    /\ lastErr = FALSE
    /\ opened = 0
    /\ tcloser = 0
    /\ closed = [f \in 1..MaxFiles |-> 0]
    /\ apc = "new"
    /\ bpc = [i \in Calls |-> "idle"]
    /\ wg = [i \in Calls |-> 0]
    /\ tpc = [i \in Calls |-> "idle"]
    /\ eLive = FALSE
    /\ earlyEnd = FALSE
    /\ endedLive = FALSE
    /\ hpc \in (IF ctor = "NewAction" THEN {"none", "boot1"} ELSE {"none"})
    /\ hwg = 0
    /\ owned = {}
    /\ failedAt = 0
    /\ started2 = FALSE
    /\ pn = 0
    /\ pk = 0
    /\ pfn = [k \in 1..MaxFns |-> "none"]
    /\ pwg = 0
    /\ ppc = "idle"
    /\ aok = [a \in 1..MaxActions |-> TRUE]
    /\ astarted = [a \in 1..MaxActions |-> 0]
    /\ aended = [a \in 1..MaxActions |-> 0]
    /\ bi = 1
    /\ sacts = <<>>
    /\ spc = "idle"
    /\ sends = 0
    /\ sepc = "idle"
    /\ swg = 0
    /\ g = [a \in 1..MaxActions |-> "none"]

Next ==
    \/ GoStart
    \/ start_begin
    \/ start_wait1_closer
    \/ start_wait1_timer
    \/ start_loop
    \/ \E err \in BOOLEAN : start_fn_return(err)
    \/ start_wait2_closer
    \/ start_wait2_timer
    \/ \E tr \in Triggers : start_defer(tr)
    \/ CallEnd
    \/ \E tr \in Triggers, i \in Calls : end_recv(tr, i)
    \/ \E tr \in Triggers, i \in Calls : end_send(tr, i)
    \/ \E tr \in Triggers, i \in Calls : end_send_recv(tr, i)
    \/ Tick
    \/ sig_start_begin
    \/ Notify
    \/ sig_start_select
    \/ \E err \in BOOLEAN : sig_fn_return(err)
    \/ \E ok \in BOOLEAN : ToFile(ok)
    \/ \E i \in Calls : targeter_end(i)
    \/ Start
    \/ \E i \in Calls : End(i)
    \/ \E ok \in BOOLEAN : Boot_Start2(ok)
    \/ SwatEnd_spawn
    \/ Boot_return

Spec == Init /\ [][Next]_vars

\* ------------------------------------------------- validate on its own
\* Schedules as the setters leave them: a field whose setter was not called
\* holds the zero value, a field whose setter was called holds the argument,
\* which may be zero (or, for a duration, negative).
SetterConfigs ==
    {cfg \in [at : Instants, after : -1..MaxDur, every : -1..MaxDur,
              length : -1..MaxDur, until : Instants] : TRUE}

\* no goroutine was started, no method other than a setter was called
NothingRun ==
    /\ pc = [sched |-> "idle", sig |-> "idle"]
    /\ timer = 0
    /\ until = ZeroTime
    /\ calls = [sched |-> 0, sig |-> 0]
    /\ ch = 0
    /\ notified = 0
    /\ epc = [tr \in Triggers |-> [i \in Calls |-> "idle"]]
    /\ ends = 0
    /\ lastErr = FALSE
    /\ opened = 0
    /\ tcloser = 0
    /\ closed = [f \in 1..MaxFiles |-> 0]
    /\ apc = "new"
    /\ bpc = [i \in Calls |-> "idle"]
    /\ wg = [i \in Calls |-> 0]
    /\ tpc = [i \in Calls |-> "idle"]
    /\ eLive = FALSE
    /\ earlyEnd = FALSE
    /\ endedLive = FALSE
    /\ hpc = "none"
    /\ hwg = 0
    /\ owned = {}
    /\ failedAt = 0
    /\ started2 = FALSE

\* no Swat was made
SwatIdle ==
    /\ aok = [a \in 1..MaxActions |-> TRUE]
    /\ astarted = [a \in 1..MaxActions |-> 0]
    /\ aended = [a \in 1..MaxActions |-> 0]
    /\ bi = 1
    /\ sacts = <<>>
    /\ spc = "idle"
    /\ sends = 0
    /\ sepc = "idle"
    /\ swg = 0
    /\ g = [a \in 1..MaxActions |-> "none"]

\* parallel was not called
ParallelIdle ==
    /\ pn = 0
    /\ pk = 0
    /\ pfn = [k \in 1..MaxFns |-> "none"]
    /\ pwg = 0
    /\ ppc = "idle"

\* s.validate()
Validate ==
    /\ verr = "none"
    /\ verr' = validate(s)
    /\ UNCHANGED <<cfgVars, swatVars, parVars, hostVars, cbVars, obsVars,
                   closer, now, pc, timer, until, calls, sigVars, epc, ends,
                   targVars, baseVars, hist>>

ValidateInit ==
    /\ ctor = "newScheduler"
    /\ s \in SetterConfigs
    /\ called \in SUBSET Setters
    /\ \A f \in Setters : f \notin called => s[FieldOf[f]] = 0
    /\ signals = FALSE
    /\ cb = 0
    /\ times = <<>>
    /\ startedAt = ZeroTime
    /\ running = 0
    /\ logged = 0
    /\ verr = "none"
    /\ closer = newScheduler
    /\ now = 1
    /\ NothingRun
    /\ ParallelIdle
    /\ SwatIdle

ValidateNext == Validate

ValidateSpec == ValidateInit /\ [][ValidateNext]_vars

\* ------------------------------------- the scheduler tests, run on time
\* A test scheduler (its callback records time.Now()) started at TStart and
\* left to run: every step of the worker is taken at the instant it becomes
\* possible, and one run of the callback takes cb.
TStart == 2
TMaxDur == 4
MaxCb == 1
TMaxInst == TStart + TMaxDur
Horizon == TStart + 2 * TMaxDur + 2

TimedConfigs ==
    [at : 0..TMaxInst, after : 0..TMaxDur, every : 0..TMaxDur,
     length : 0..TMaxDur, until : 0..TMaxInst]

\* the test or the worker has a step to take at the current instant
WorkerReady ==
    \/ pc.sched \in {"idle", "start", "loop", "defer"}
    \/ pc.sched \in {"wait1", "wait2"} /\ now >= timer
    \/ pc.sched = "fn" /\ now >= times[Len(times)] + cb

\* time passes while the worker waits for a timer or runs the callback
TickIdeal ==
    /\ ~WorkerReady
    /\ now < Horizon
    /\ now' = now + 1
    /\ UNCHANGED <<cfgVars, swatVars, parVars, hostVars, cbVars, auxVars,
                   obsVars, closer, pc, timer, until, calls, sigVars, epc,
                   ends, targVars, baseVars, hist>>

TimedInit ==
    /\ ctor = "newTestScheduler"
    /\ s \in TimedConfigs
    /\ signals = FALSE
    /\ called = NonZero(s)
    /\ cb \in 0..MaxCb
    /\ times = <<>>
    /\ startedAt = ZeroTime
    /\ running = 0
    /\ logged = 0
    /\ verr = "none"
    /\ closer = newScheduler
    /\ now = TStart
    /\ NothingRun
    /\ ParallelIdle
    /\ SwatIdle

TimedNext ==
    \/ GoStart
    \/ start_begin
    \/ start_wait1_timer
    \/ start_loop
    \/ start_fn_return(FALSE)
    \/ start_wait2_timer
    \/ start_defer("sched")
    \/ TickIdeal

TimedSpec == TimedInit /\ [][TimedNext]_vars

\* ------------------------------------------------- parallel on its own
\* One call parallel(fns...) with 0..MaxFns functions, each of which runs
\* in its goroutine and returns.

\* one iteration of the loop: wg.Add(1); go fn()
parallel_go ==
    /\ ppc = "loop"
    /\ pk < pn
    /\ pk' = pk + 1
    /\ pwg' = pwg + 1
    /\ pfn' = [pfn EXCEPT ![pk + 1] = "run"]
    /\ UNCHANGED <<pn, ppc>>
    /\ UNCHANGED <<cfgVars, swatVars, hostVars, cbVars, auxVars, obsVars,
                   closer, now, pc, timer, until, calls, sigVars, epc, ends,
                   targVars, baseVars, hist>>

\* the loop is over: parallel reaches wg.Wait()
parallel_loop_done ==
    /\ ppc = "loop"
    /\ pk = pn
    /\ ppc' = "wait"
    /\ UNCHANGED <<pn, pk, pfn, pwg>>
    /\ UNCHANGED <<cfgVars, swatVars, hostVars, cbVars, auxVars, obsVars,
                   closer, now, pc, timer, until, calls, sigVars, epc, ends,
                   targVars, baseVars, hist>>

\* the k-th fn returns and its goroutine ends; nothing calls wg.Done
parallel_fn_return(k) ==
    /\ pfn[k] = "run"
    /\ pfn' = [pfn EXCEPT ![k] = "ret"]
    /\ UNCHANGED <<pn, pk, pwg, ppc>>
    /\ UNCHANGED <<cfgVars, swatVars, hostVars, cbVars, auxVars, obsVars,
                   closer, now, pc, timer, until, calls, sigVars, epc, ends,
                   targVars, baseVars, hist>>

\* wg.Wait() returns once the counter is zero, and parallel returns
parallel_Wait ==
    /\ ppc = "wait"
    /\ pwg = 0
    /\ ppc' = "ret"
    /\ UNCHANGED <<pn, pk, pfn, pwg>>
    /\ UNCHANGED <<cfgVars, swatVars, hostVars, cbVars, auxVars, obsVars,
                   closer, now, pc, timer, until, calls, sigVars, epc, ends,
                   targVars, baseVars, hist>>

ParallelInit ==
    /\ ctor = "newScheduler"
    /\ s = [at |-> ZeroTime, after |-> 0, every |-> 0, length |-> 0,
            until |-> ZeroTime]
    /\ signals = FALSE
    /\ called = {}
    /\ cb = 0
    /\ times = <<>>
    /\ startedAt = ZeroTime
    /\ running = 0
    /\ logged = 0
    /\ verr = "none"
    /\ closer = newScheduler
    /\ now = 1
    /\ NothingRun
    /\ pn \in 0..MaxFns
    /\ pk = 0
    /\ pfn = [k \in 1..MaxFns |-> "none"]
    /\ pwg = 0
    /\ ppc = "loop"
    /\ SwatIdle

ParallelNext ==
    \/ parallel_go
    \/ parallel_loop_done
    \/ \E k \in 1..MaxFns : parallel_fn_return(k)
    \/ parallel_Wait

ParallelSpec == ParallelInit /\ [][ParallelNext]_vars

\* ------------------------------------------------- the Swat on its own
\* Start(actions...) over MaxActions actions that keep the contract of the
\* Action interface: Start() returns nil or an error, End() returns.  After
\* Boot has returned the host may call Swat.End.

\* Boot: one iteration of the loop, action.Start() and what follows it
Swat_Boot_Start ==
    /\ spc = "boot"
    /\ bi <= MaxActions
    /\ astarted' = [astarted EXCEPT ![bi] = @ + 1]
    /\ IF aok[bi]
       THEN /\ sacts' = Append(sacts, bi)
            /\ bi' = bi + 1
            /\ UNCHANGED <<spc, sepc>>
       ELSE /\ spc' = "rollback"
            /\ sepc' = "loop"
            /\ UNCHANGED <<sacts, bi>>
    /\ UNCHANGED <<aok, aended, sends, swg, g>>
    /\ UNCHANGED <<cfgVars, parVars, hostVars, cbVars, auxVars, obsVars,
                   closer, now, pc, timer, until, calls, sigVars, epc, ends,
                   targVars, baseVars, hist>>

\* Boot: the loop is over, return nil
Swat_Boot_nil ==
    /\ spc = "boot"
    /\ bi > MaxActions
    /\ spc' = "bootNil"
    /\ UNCHANGED <<aok, astarted, aended, bi, sacts, sends, sepc, swg, g>>
    /\ UNCHANGED <<cfgVars, parVars, hostVars, cbVars, auxVars, obsVars,
                   closer, now, pc, timer, until, calls, sigVars, epc, ends,
                   targVars, baseVars, hist>>

\* the host calls Swat.End on the Swat that Start(actions...) returned
Swat_End_call ==
    /\ spc \in {"bootNil", "bootErr"}
    /\ sends < MaxSwatEnds
    /\ sends' = sends + 1
    /\ spc' = "hostEnd"
    /\ sepc' = "loop"
    /\ UNCHANGED <<aok, astarted, aended, bi, sacts, swg, g>>
    /\ UNCHANGED <<cfgVars, parVars, hostVars, cbVars, auxVars, obsVars,
                   closer, now, pc, timer, until, calls, sigVars, epc, ends,
                   targVars, baseVars, hist>>

\* Swat.End: wg.Add(1) and a goroutine for every action of s.actions
Swat_End_loop ==
    /\ sepc = "loop"
    /\ swg' = swg + Len(sacts)
    /\ g' = [a \in 1..MaxActions |->
                IF \E j \in 1..Len(sacts) : sacts[j] = a THEN "go" ELSE g[a]]
    /\ sepc' = "wait"
    /\ UNCHANGED <<aok, astarted, aended, bi, sacts, spc, sends>>
    /\ UNCHANGED <<cfgVars, parVars, hostVars, cbVars, auxVars, obsVars,
                   closer, now, pc, timer, until, calls, sigVars, epc, ends,
                   targVars, baseVars, hist>>

\* a goroutine of Swat.End calls action.End()
Swat_End_go(a) ==
    /\ g[a] = "go"
    /\ g' = [g EXCEPT ![a] = "inEnd"]
    /\ aended' = [aended EXCEPT ![a] = @ + 1]
    /\ UNCHANGED <<aok, astarted, bi, sacts, spc, sends, sepc, swg>>
    /\ UNCHANGED <<cfgVars, parVars, hostVars, cbVars, auxVars, obsVars,
                   closer, now, pc, timer, until, calls, sigVars, epc, ends,
                   targVars, baseVars, hist>>

\* action.End() returns and the deferred wg.Done() runs
Swat_End_Done(a) ==
    /\ g[a] = "inEnd"
    /\ g' = [g EXCEPT ![a] = "done"]
    /\ swg' = swg - 1
    /\ UNCHANGED <<aok, astarted, aended, bi, sacts, spc, sends, sepc>>
    /\ UNCHANGED <<cfgVars, parVars, hostVars, cbVars, auxVars, obsVars,
                   closer, now, pc, timer, until, calls, sigVars, epc, ends,
                   targVars, baseVars, hist>>

\* wg.Wait() of Swat.End returns; when Boot called it, Boot returns err
Swat_End_Wait ==
    /\ sepc = "wait"
    /\ swg = 0
    /\ sepc' = "idle"
    /\ spc' = IF spc = "rollback" THEN "bootErr" ELSE "ended"
    /\ UNCHANGED <<aok, astarted, aended, bi, sacts, sends, swg, g>>
    /\ UNCHANGED <<cfgVars, parVars, hostVars, cbVars, auxVars, obsVars,
                   closer, now, pc, timer, until, calls, sigVars, epc, ends,
                   targVars, baseVars, hist>>

SwatInit ==
    /\ ctor = "newScheduler"
    /\ s = [at |-> ZeroTime, after |-> 0, every |-> 0, length |-> 0,
            until |-> ZeroTime]
    /\ signals = FALSE
    /\ called = {}
    /\ cb = 0
    /\ times = <<>>
    /\ startedAt = ZeroTime
    /\ running = 0
    /\ logged = 0
    /\ verr = "none"
    /\ closer = newScheduler
    /\ now = 1
    /\ NothingRun
    /\ pn = 0 /\ pk = 0 /\ pwg = 0 /\ ppc = "idle"
    /\ pfn = [k \in 1..MaxFns |-> "none"]
    /\ aok \in [1..MaxActions -> BOOLEAN]
    /\ astarted = [a \in 1..MaxActions |-> 0]
    /\ aended = [a \in 1..MaxActions |-> 0]
    /\ bi = 1
    /\ sacts = <<>>
    /\ spc = "boot"
    /\ sends = 0
    /\ sepc = "idle"
    /\ swg = 0
    /\ g = [a \in 1..MaxActions |-> "none"]

SwatNext ==
    \/ Swat_Boot_Start
    \/ Swat_Boot_nil
    \/ Swat_End_call
    \/ Swat_End_loop
    \/ \E a \in 1..MaxActions : Swat_End_go(a)
    \/ \E a \in 1..MaxActions : Swat_End_Done(a)
    \/ Swat_End_Wait

SwatSpec == SwatInit /\ [][SwatNext]_vars

\* ----------------------------------------------------------------- fairness
\* The Go scheduler runs every goroutine that can take a step: weak fairness
\* for the steps of each goroutine.  Nothing is assumed of the callers
\* (GoStart, CallEnd, ToFile, Start, End), of the clock or of the process's
\* signals.
SchedulerStep ==
    \/ start_begin
    \/ start_wait1_closer
    \/ start_wait1_timer
    \/ start_loop
    \/ \E err \in BOOLEAN : start_fn_return(err)
    \/ start_wait2_closer
    \/ start_wait2_timer
    \/ start_defer("sched")

SignalerStep ==
    \/ sig_start_begin
    \/ sig_start_select
    \/ \E err \in BOOLEAN : sig_fn_return(err)
    \/ start_defer("sig")

EndStep(tr, i) == end_recv(tr, i) \/ end_send(tr, i) \/ end_send_recv(tr, i)

\* the steps of Boot and of the goroutines of Swat.End
BootStep ==
    \/ hpc = "boot1" /\ Start
    \/ \E ok \in BOOLEAN : Boot_Start2(ok)
    \/ SwatEnd_spawn
    \/ Boot_return
    \/ hpc = "wait" /\ \E i \in Calls : End(i)

Fairness ==
    /\ WF_vars(BootStep)
    /\ WF_vars(SchedulerStep)
    /\ WF_vars(SignalerStep)
    /\ \A tr \in Triggers, i \in Calls : WF_vars(EndStep(tr, i))
    /\ \A i \in Calls : WF_vars(targeter_end(i))
    /\ \A i \in Calls : WF_vars(bpc[i] = "wait" /\ End(i))

FairSpec == Spec /\ Fairness

\* ------------------------------------------------------------------- claims
\* C1: once an end() called on a launched Scheduler (newScheduler) has
\* returned, the worker has stopped: it is not inside the callback and it
\* does not invoke the callback any more.
C1_EndReturnsAfterWorkerStopped ==
    [][endedLive => (pc.sched # "fn" /\ calls'.sched = calls.sched)]_vars

\* C2: on a Scheduler built with newScheduler every call of end() returns,
\* wherever the worker is: not launched, launched and not yet run, in either
\* wait, inside the callback, or exited.
C2_EndReturns ==
    \A i \in Calls :
        (ctor = "newScheduler" /\ epc.sched[i] = "select")
            ~> (epc.sched[i] = "ret")

C2_Witness ==
    /\ ctor = "newScheduler"
    /\ eLive
    /\ epc.sched[1] = "ret"
    /\ pc.sched = "done"
    /\ calls.sched = 0

\* C3: when end() is called on a launched Scheduler before the first
\* invocation of the callback, the callback is never invoked.
C3_EarlyEndPreventsFirings == earlyEnd => calls.sched = 0

\* C4: BaseAction.End() returns when Start() was never called or returned
\* an error.
C4_EndReturnsWithoutStart ==
    \A i \in Calls :
        (ctor = "NewAction" /\ apc # "started" /\ bpc[i] = "wait")
            ~> (bpc[i] = "ret")

\* C5: after a successful Start(), BaseAction.End() returns, and when it
\* has returned both workers have exited and targeter.end has completed.
C5_EndReturnsAfterStart ==
    /\ \A i \in Calls :
        (ctor = "NewAction" /\ apc = "started" /\ bpc[i] = "wait")
            ~> (bpc[i] = "ret")
    /\ [](\A i \in Calls :
            bpc[i] = "ret" =>
                pc.sched = "done" /\ pc.sig = "done" /\ tpc[i] = "ret")

\* C6: whatever the number of targeter.end() calls, the file held by the
\* targeter is closed exactly once as soon as one of them has completed, and
\* no Close is made when no file was opened.
C6_FileClosedOnce ==
    /\ (tcloser # 0 /\ \E i \in Calls : tpc[i] = "ret")
            => closed[tcloser] = 1
    /\ opened = 0 => \A f \in 1..MaxFiles : closed[f] = 0

\* C7: a signaler with a non-empty signal set stops on request: a call of
\* end() on the started signaler returns, after which the worker has exited
\* and serves no further notification.
C7_SignalerStops ==
    /\ \A i \in Calls :
        (signals /\ pc.sig # "idle" /\ epc.sig[i] = "select")
            ~> (epc.sig[i] = "ret")
    /\ [](\A i \in Calls : epc.sig[i] = "ret" => pc.sig = "done")

\* C8: an inert trigger started by BaseAction.Start() never invokes the
\* callback and its worker reports completion and exits.
C8_InertWorkerExits ==
    /\ (ctor = "NewAction" /\ pc.sched = "start" /\ ~isActivated(s))
            ~> (pc.sched = "done" /\ calls.sched = 0)
    /\ (ctor = "NewAction" /\ pc.sig = "start" /\ ~signals)
            ~> (pc.sig = "done" /\ calls.sig = 0)

\* a one-shot Scheduler whose worker has fired once and exited on its own
OneShotDone ==
    /\ ctor = "newScheduler"
    /\ s.every = 0
    /\ pc.sched = "done"
    /\ calls.sched = 1

\* C9: once a one-shot worker has fired and exited on its own, an end()
\* never blocks: before any end() is called the completion marker is in the
\* slot, a select of end() that finds it returns in that one step, a select
\* that does not can send, and the receive after a send can proceed; and
\* the callback is not invoked again.
C9_EndAfterOneShot ==
    [][OneShotDone =>
        /\ ends = 0 => CanRecv(closer.sched)
        /\ \A i \in Calls :
              /\ epc.sched[i] = "select"
                    => CanRecv(closer.sched) \/ CanSend(closer.sched)
              /\ epc.sched[i] = "recv" => CanRecv(closer.sched)
              /\ ( /\ epc.sched[i] = "select"
                   /\ CanRecv(closer.sched)
                   /\ epc'.sched[i] # "select" )
                    => epc'.sched[i] = "ret"
        /\ calls' = calls]_vars

C9_Witness ==
    /\ OneShotDone
    /\ epc.sched[1] = "ret"
    /\ Len(closer.sched.buf) = 0

\* C10: end() is idempotent: once an end() called on a launched Scheduler
\* has returned and a further end() is called, no invocation of the callback
\* occurs during or after that further call.
C10_EndIdempotent ==
    [][(endedLive /\ \E i \in Calls : i > 1 /\ epc.sched[i] # "idle")
            => calls'.sched = calls.sched]_vars


\* the schedule breaks one of the three rules, a field counting as set once
\* each setter in isSet was called or holds a value
Rejected(isSet) ==
    \/ "At" \in isSet /\ "After" \in isSet
    \/ "Until" \in isSet /\ "For" \in isSet
    \/ ("For" \in isSet \/ "Until" \in isSet) /\ "Every" \notin isSet

\* the setters whose field validate() takes as set: a positive After or For,
\* an Every other than zero, an At or Until other than the zero time
TakenAsSet(cfg) ==
    {f \in Setters :
        IF f \in {"After", "For"} THEN cfg[FieldOf[f]] > 0
        ELSE cfg[FieldOf[f]] # 0}

\* C11 as claimed: validate() returns an error exactly for the schedules that
\* break a rule, a field counting as set once its setter has been called.
C11_ValidateBySetterCalls ==
    verr # "none" => ((verr # "nil") <=> Rejected(called))

\* C11 amended: validate() returns an error exactly for the schedules that
\* break a rule, a field counting as set when After or For is positive,
\* Every is not zero, At or Until is not the zero time.
C11_ValidateByValues ==
    verr # "none" => ((verr # "nil") <=> Rejected(TakenAsSet(s)))

C11_Witness ==
    /\ verr = "nil"
    /\ called = {"At", "After"}
    /\ s.after = 0
    /\ s.at # ZeroTime

\* C12: BaseAction.Start() returns the recorded ToFile error if there is one,
\* otherwise the validation error if there is one, and whenever it returned an
\* error neither worker was launched and no callback is ever invoked.
C12_StartErrors ==
    (ctor = "NewAction" /\ apc # "new") =>
        /\ apc = (IF lastErr THEN "lastErr"
                  ELSE IF validate(s) # "nil" THEN validate(s) ELSE "started")
        /\ apc # "started" =>
              /\ pc = [sched |-> "idle", sig |-> "idle"]
              /\ calls = [sched |-> 0, sig |-> 0]

C12_Witness ==
    /\ apc = "lastErr"
    /\ validate(s) # "nil"
    /\ ends > 0

Max(a, b) == IF a >= b THEN a ELSE b

\* the quotient a / b rounded up
CeilDiv(a, b) == (a + b - 1) \div b

\* the test schedule is After(d).Every(i).For(f) with d, i, f > 0
AfterEveryFor ==
    /\ ctor = "newTestScheduler"
    /\ s.after > 0 /\ s.every > 0 /\ s.length > 0
    /\ s.at = ZeroTime /\ s.until = ZeroTime

\* C13 as claimed: After(d).Every(i).For(f), run to its cutoff, fires at
\* start+d+k*i while that instant is before start+d+f, floor(f/i)+1 times in
\* all (here with a callback that returns at once).
C13_CountFloorPlusOne ==
    (AfterEveryFor /\ cb = 0) =>
        /\ \A j \in 1..Len(times) :
              /\ times[j] = startedAt + s.after + (j - 1) * s.every
              /\ times[j] < startedAt + s.after + s.length
        /\ pc.sched = "done" => Len(times) = (s.length \div s.every) + 1

\* C13 amended: After(d).Every(i).For(f), run to its cutoff with a callback
\* that takes c, fires at start+d+k*(i+c) while that instant is before
\* start+d+f, which is f/(i+c) rounded up times in all.
C13_CountCeil ==
    AfterEveryFor =>
        /\ \A j \in 1..Len(times) :
              /\ times[j] = startedAt + s.after + (j - 1) * (s.every + cb)
              /\ times[j] < startedAt + s.after + s.length
        /\ pc.sched = "done" => Len(times) = CeilDiv(s.length, s.every + cb)

C13_Witness ==
    /\ AfterEveryFor
    /\ cb = 0
    /\ s.length = 2 * s.every
    /\ pc.sched = "done"
    /\ Len(times) = 2

\* the test schedule has only At(t) set
OnlyAt ==
    /\ ctor = "newTestScheduler"
    /\ s.at # ZeroTime
    /\ s.after = 0 /\ s.every = 0 /\ s.length = 0 /\ s.until = ZeroTime

\* C14: a schedule with only At(t) fires exactly once, at t when t is in the
\* future and at the start of the worker when t is in the past, and then the
\* worker reports completion and exits.
C14_AtFiresOnce ==
    OnlyAt =>
        /\ Len(times) <= 1
        /\ \A j \in 1..Len(times) : times[j] = Max(s.at, startedAt)
        /\ now > Max(s.at, TStart) => Len(times) = 1
        /\ now > Max(s.at, TStart) + cb => pc.sched = "done"
        /\ pc.sched = "done" => (Len(times) = 1 /\ CanRecv(closer.sched))

C14_Witness ==
    /\ OnlyAt
    /\ s.at < startedAt
    /\ times = <<startedAt>>
    /\ pc.sched = "done"
    /\ now = Horizon

\* the test schedule is Every(i).Until(u) with no After and no At
EveryUntil ==
    /\ ctor = "newTestScheduler"
    /\ s.every > 0 /\ s.until # ZeroTime
    /\ s.after = 0 /\ s.at = ZeroTime /\ s.length = 0

\* the firings Every(i).Until(u) is due: the k >= 0 with start+k*i < u
DueBefore(start, i, u) ==
    Cardinality({k \in 0..Horizon : start + k * i < u})

FirstDue == TStart + Max(0, resolveSleep(s, TStart))

\* C16: for every valid schedule and every callback that takes less than the
\* interval, the first firing is at worker start + initial wait and the k-th
\* later firing at first + k*interval, without drift.
C16_NoDrift ==
    (/\ ctor = "newTestScheduler"
     /\ validate(s) = "nil"
     /\ s.every > 0 => cb < s.every) =>
        \A j \in 1..Len(times) : times[j] = FirstDue + (j - 1) * s.every

\* C20: the For(f) cutoff is anchored at the instant the initial wait ends:
\* for After(d).Every(i).For(f) the cutoff is that instant + f, so the number
\* of firings does not depend on d.
C20_CutoffFromWaitEnd ==
    (ctor = "newTestScheduler" /\ s.length > 0) =>
        /\ pc.sched \in {"loop", "fn", "wait2"} => until = FirstDue + s.length
        /\ (AfterEveryFor /\ pc.sched = "done") =>
              Len(times) = CeilDiv(s.length, s.every + cb)

C20_Witness ==
    /\ AfterEveryFor
    /\ s.after > s.length
    /\ pc.sched = "done"
    /\ Len(times) >= 2
    /\ until = startedAt + s.after + s.length

\* C18: an error returned by the callback changes nothing but the log: Start
\* and End return what they return without it, the worker does not exit
\* because of it, and the step that logs it leaves the worker where a return
\* without error leaves it.
C18_CallbackErrorIgnored ==
    [][logged' > logged =>
          /\ apc = "started" /\ apc' = apc /\ bpc' = bpc
          /\ calls' = calls /\ closer' = closer /\ until' = until
          /\ pc.sched = "fn" \/ pc.sig = "fn"
          /\ pc.sched = "fn" /\ pc'.sched # "fn" =>
                /\ pc'.sched = (IF s.every = 0 THEN "defer" ELSE "wait2")
                /\ timer' = (IF s.every = 0 THEN timer ELSE now + s.every)
                /\ pc'.sig = pc.sig
          /\ pc.sig = "fn" /\ pc'.sig # "fn" =>
                /\ pc'.sig = "wait"
                /\ timer' = timer
                /\ pc'.sched = pc.sched]_vars

\* both callbacks kept firing after their errors were logged
C18_Witness ==
    /\ logged = 3
    /\ calls = [sched |-> 3, sig |-> 1]
    /\ pc = [sched |-> "fn", sig |-> "wait"]

\* C19: the runs of the callback by the time worker of one action never
\* overlap and come one after the other: a run starts only when none is in
\* progress, whatever end() and the signal worker do.
C19_NoOverlap ==
    /\ [](running <= 1)
    /\ [][calls'.sched # calls.sched =>
            /\ calls'.sched = calls.sched + 1
            /\ running = 0 /\ running' = 1]_vars

C19_Witness ==
    /\ ctor = "NewAction"
    /\ running = 1
    /\ calls.sched = 2
    /\ pc.sig = "fn"
    /\ ends > 0

\* C17: Boot starts the actions in order; when the first Start() fails at
\* index j, Boot returns that error after End() was called on every action
\* before j and has completed, and Start() is never called on an action
\* after j.
C17_BootRollsBack ==
    /\ [](hpc = "boot2" => apc = "started")
    /\ [](failedAt = 1 => ~started2)
    /\ [](hpc = "returnedErr" => (failedAt = 2 => bpc[1] = "ret"))
    /\ (failedAt # 0) ~> (hpc = "returnedErr")

\* every fn given to parallel was started and has returned
AllFnsReturned ==
    /\ pk = pn
    /\ \A k \in 1..pn : pfn[k] = "ret"

\* C21: parallel(fns...) with at least one fn returns exactly when all of
\* them have returned: it has not returned while some fn is running, and in
\* a state where it waits and every fn has returned its wg.Wait() returns.
C21_ParallelReturns ==
    pn >= 1 =>
        /\ ppc = "ret" => AllFnsReturned
        /\ (ppc = "wait" /\ AllFnsReturned) => pwg = 0

\* C22: the host calls End() at most once on each action it started, also
\* when Swat.End is called after a Boot that failed and rolled back; after a
\* successful Boot, Swat.End calls End() exactly once on each action and
\* returns only after all those calls returned.
C22_EndOncePerAction ==
    /\ \A a \in 1..MaxActions : aended[a] <= astarted[a] /\ aended[a] <= 1
    /\ (spc = "ended" /\ \A a \in 1..MaxActions : aok[a]) =>
          \A a \in 1..MaxActions : aended[a] = 1 /\ g[a] = "done"

====
